---- MODULE Spec2Model ----
(***************************************************************************)
(* StudyBot (src/app.py): the Messenger webhook, its conversation state    *)
(* machine, the Redis conversation cache and the SQL fact store.           *)
(*                                                                         *)
(* Python values are modelled as follows.  Text is a sequence of           *)
(* one-character strings, so that int(), lower() and the unicode_escape    *)
(* codec are computed character by character.  None is NoneVal for         *)
(* integers, NoneStr for text and NoDate for datetimes.  A datetime value  *)
(* and its ISO string are distinct values (kind "datetime" / "str").       *)
(* Confidences are tenths (0.7 is 7).  The module-level global             *)
(* current_user is a sequence of length 0 (None) or 1 (a ConvoState).      *)
(*                                                                         *)
(* The functions of app.py are operators on a record w of everything a     *)
(* request can read or write (store, cache, global, outbound calls made,   *)
(* pending exception).  An exception that no try block catches sets w.exc  *)
(* and every later statement of the request is skipped.                    *)
(***************************************************************************)
EXTENDS Integers, Sequences, FiniteSets, TLC

(* ------------------------------ bounds -------------------------------- *)
\* fact ids the store hands out before the model stops creating facts
MaxFacts == 2
\* message events handled in one run of the model
MaxEvents == 6
\* of these, the first that may carry entities or meet an outage; the events
\* after them are plain text
MaxCommands == 5

Senders == {"s1", "s2"}

\* message texts of the inbound events
Msgs == { <<"1">>, <<"Y", "E", "S">> }

(* --------------------------- program constants ------------------------ *)
MIN_CONFIDENCE_THRESHOLD == 7
CACHE_EXPIRATION_IN_SECONDS == 300
CONFIRMATIONS == { <<"y", "e", "s">>, <<"y", "e", "a">>, <<"y", "e", "p">>, <<"y">> }
RANDOM_PHRASES == << "Hey %s, how the heck are ya?", "Studying again %s?",
                     "You want to study right now, %s?" >>

StateNames == << "DEFAULT", "WAITING_FOR_FACT_QUESTION", "WAITING_FOR_FACT_ANSWER",
                 "WAITING_FOR_FACT_TO_CHANGE", "WAITING_FOR_FACT_TO_DELETE",
                 "CONFIRM_FACT_DELETE", "WAITING_FOR_SILENCE_DURATION" >>
\* State.X.value
StateValue(name) == (CHOOSE i \in 1..Len(StateNames) : StateNames[i] = name) - 1
\* State(n)
StateOfValue(n) == StateNames[n + 1]

(* ------------------------------ Python values ------------------------- *)
NoneVal == -1
NoneStr == << "<None>" >>
NoDate == [kind |-> "none", v |-> 0]
Truthy(x) == x # NoneVal /\ x # 0

\* datetime.utcnow(): one abstract instant
utcnow == [kind |-> "datetime", v |-> 1]

\* str.lower()
LowerChar(c) ==
  CASE c = "Y" -> "y" [] c = "E" -> "e" [] c = "S" -> "s" [] c = "A" -> "a"
    [] c = "P" -> "p" [] c = "N" -> "n" [] c = "O" -> "o" [] OTHER -> c
Lower(s) == [i \in 1..Len(s) |-> LowerChar(s[i])]

\* text.encode('unicode_escape'): a backslash is doubled, printable ASCII is kept
RECURSIVE unicode_escape_encode(_)
unicode_escape_encode(s) ==
  IF s = << >> THEN << >>
  ELSE (IF Head(s) = "\\" THEN << "\\", "\\" >> ELSE << Head(s) >>)
         \o unicode_escape_encode(Tail(s))

\* bytes.decode('unicode_escape'): a doubled backslash is one backslash
RECURSIVE unicode_escape_decode(_)
unicode_escape_decode(s) ==
  IF s = << >> THEN << >>
  ELSE IF Head(s) = "\\" /\ Len(s) >= 2 /\ s[2] = "\\"
       THEN << "\\" >> \o unicode_escape_decode(Tail(Tail(s)))
       ELSE << Head(s) >> \o unicode_escape_decode(Tail(s))

Digits == << "0", "1", "2", "3", "4", "5", "6", "7", "8", "9" >>
IsDigit(c) == \E i \in 1..10 : Digits[i] = c
DigitValue(c) == (CHOOSE i \in 1..10 : Digits[i] = c) - 1

RECURSIVE StripLeft(_)
StripLeft(s) == IF s # << >> /\ Head(s) = " " THEN StripLeft(Tail(s)) ELSE s
RECURSIVE StripRight(_)
StripRight(s) ==
  IF s # << >> /\ s[Len(s)] = " " THEN StripRight(SubSeq(s, 1, Len(s) - 1)) ELSE s

RECURSIVE DigitsValue(_, _)
DigitsValue(s, acc) ==
  IF s = << >> THEN acc ELSE DigitsValue(Tail(s), 10 * acc + DigitValue(Head(s)))

\* int(text): surrounding blanks and one sign are accepted, then digits only
IntBody(s) == IF s # << >> /\ Head(s) \in {"+", "-"} THEN Tail(s) ELSE s
IntParses(text) ==
  LET b == IntBody(StripRight(StripLeft(text)))
  IN  b # << >> /\ \A i \in 1..Len(b) : IsDigit(b[i])
IntOf(text) ==
  LET t == StripRight(StripLeft(text))
      n == DigitsValue(IntBody(t), 0)
  IN  IF t # << >> /\ Head(t) = "-" THEN 0 - n ELSE n

(* ------------------------------ data classes -------------------------- *)
\* Fact(user_id=...): a new, unsaved row object
Fact(user_id) ==
  [id |-> NoneVal, user_id |-> user_id, question |-> NoneStr, answer |-> NoneStr,
   confidence |-> NoneVal, last_seen |-> NoDate]

\* Fact.serialize_date_time
serialize_date_time(date_time) ==
  IF date_time.kind = "datetime" THEN [kind |-> "str", v |-> date_time.v] ELSE NoDate

\* Fact.serialize
FactSerialize(f) ==
  [id |-> f.id, user_id |-> f.user_id, question |-> f.question, answer |-> f.answer,
   confidence |-> f.confidence, last_seen |-> serialize_date_time(f.last_seen)]

\* ConvoState.__init__
ConvoState(user_id, state) ==
  [user_id |-> user_id, tmp_fact |-> Fact(user_id), state |-> state]

\* ConvoState.serialize (the dictionary that json.dumps writes to the cache)
ConvoSerialize(cs) ==
  [user_id |-> cs.user_id, tmp_fact |-> FactSerialize(cs.tmp_fact),
   state |-> StateValue(cs.state)]

(* ------------------------------ replies ------------------------------- *)
\* an outbound text: the fixed wording, and what is formatted into it
Reply(text, name, listing, full, q, a, secs) ==
  [text |-> text, name |-> name, listing |-> listing, full |-> full,
   q |-> q, a |-> a, secs |-> secs]
Plain(text) == Reply(text, "", {}, FALSE, NoneStr, NoneStr, NoneVal)
EmptyReply == Plain("")

\* the display name the profile lookup returns for a sender
FirstName(user_id) == user_id

(* ------------------------ the request's environment ------------------- *)
\* collaborators that can be down while one event is handled
Faults == {"none", "profile", "cache", "store", "send"}

Raise(w) == [w EXCEPT !.exc = TRUE]
CU(w) == w.current_user[1]

\* get_user
get_user(w, user_id) == IF w.users[user_id] = 0 THEN NoneVal ELSE w.users[user_id]

\* is_first_time_user
is_first_time_user(w, sender_id) == get_user(w, sender_id) = NoneVal

\* create_user: the store assigns the next id
create_user(w, sender_id) ==
  IF w.exc THEN w
  ELSE [w EXCEPT !.users[sender_id] = Cardinality({s \in Senders : w.users[s] # 0}) + 1]

\* change_typing_indicator: requests.post raises when the platform is unreachable
change_typing_indicator(w, enabled, user_id) ==
  IF w.exc THEN w
  ELSE IF w.fault = "send" THEN Raise(w)
  ELSE [w EXCEPT !.actions = Append(@, IF enabled THEN "typing_on" ELSE "typing_off")]

\* send_message
send_message(w, user_id, msg_text, is_response) ==
  IF w.exc THEN w
  ELSE IF w.fault = "send" THEN Raise(w)
  ELSE [w EXCEPT !.sent = Append(@, [to |-> user_id, msg |-> msg_text,
           type |-> IF is_response THEN "RESPONSE" ELSE "NON_PROMOTIONAL_SUBSCRIPTION"])]

\* get_users_firstname raises when the profile lookup fails or has no first_name
send_welcome_message(w, sender_id) ==
  IF w.exc THEN w
  ELSE IF w.fault = "profile" THEN Raise(w)
  ELSE send_message(w, sender_id,
         Reply("Hello %s, I'm StudyBot. Nice to meet you!", FirstName(sender_id),
               {}, FALSE, NoneStr, NoneStr, NoneVal), TRUE)

\* send_greeting_message: randint picks the phrase
send_greeting_message(w, sender_id) ==
  IF w.exc THEN w
  ELSE IF w.fault = "profile" THEN Raise(w)
  ELSE send_message(w, sender_id,
         Reply(RANDOM_PHRASES[w.randint + 1], FirstName(sender_id),
               {}, FALSE, NoneStr, NoneStr, NoneVal), TRUE)

(* ------------------------------ the cache ----------------------------- *)
\* set_user
set_user(w, user_data) == [w EXCEPT !.current_user = << user_data >>]

\* restore_convo_state, the cache-hit branch: the ConvoState built from the
\* parsed snapshot; last_seen is assigned as it was stored (an ISO string or None)
RestoreFromSnapshot(tmp) ==
  [user_id |-> tmp.user_id,
   state |-> StateOfValue(tmp.state),
   tmp_fact |-> [id |-> tmp.tmp_fact.id,
                 user_id |-> tmp.tmp_fact.user_id,
                 question |-> tmp.tmp_fact.question,
                 answer |-> tmp.tmp_fact.answer,
                 confidence |-> tmp.tmp_fact.confidence,
                 last_seen |-> tmp.tmp_fact.last_seen]]

\* restore_convo_state that, on a cache miss, keeps a ConvoState the module
\* global already holds instead of building a new one
restore_convo_state_stale(w, sender_id) ==
  IF w.exc THEN w
  ELSE IF w.fault = "cache" THEN Raise(w)
  ELSE LET user_data == w.cache[sender_id]
       IN  IF user_data = << >>
           THEN IF w.current_user = << >>
                THEN set_user([w EXCEPT !.hit = "miss"],
                              ConvoState(get_user(w, sender_id), "DEFAULT"))
                ELSE [w EXCEPT !.hit = "miss"]
           ELSE set_user([w EXCEPT !.hit = "hit"],
                         RestoreFromSnapshot(user_data[1].data))

\* restore_convo_state
restore_convo_state(w, sender_id) ==
  IF w.exc THEN w
  ELSE IF w.fault = "cache" THEN Raise(w)
  ELSE LET user_data == w.cache[sender_id]
       IN  IF user_data = << >>
           THEN set_user([w EXCEPT !.hit = "miss"],
                         ConvoState(get_user(w, sender_id), "DEFAULT"))
           ELSE set_user([w EXCEPT !.hit = "hit"],
                         RestoreFromSnapshot(user_data[1].data))

\* set_convo_state: current_user.state on None is an AttributeError
set_convo_state(w, sender_id, new_state) ==
  IF w.exc THEN w
  ELSE IF w.current_user = << >> THEN Raise(w)
  ELSE LET w1 == set_user(w, [CU(w) EXCEPT !.state = new_state])
       IN  IF w.fault = "cache" THEN Raise(w1)
           ELSE [w1 EXCEPT !.cache[sender_id] =
                   << [data |-> ConvoSerialize(CU(w1)),
                       ttl |-> CACHE_EXPIRATION_IN_SECONDS] >>]

(* ------------------------------ the fact store ------------------------ *)
\* Fact.query.filter_by(user_id=current_user.user_id, id=fact_id)
FactsById(w, fact_id) ==
  {f \in w.facts : f.user_id = CU(w).user_id /\ f.id = fact_id}
\* Fact.query.filter_by(user_id=current_user.user_id, question=fact_id)
FactsByQuestion(w, question) ==
  {f \in w.facts : f.user_id = CU(w).user_id /\ f.question = question}

\* question = db.Column(db.String, unique=True): no other row has this question
QuestionFree(w, question, own_id) ==
  question = NoneStr \/ ~ \E f \in w.facts : f.question = question /\ f.id # own_id

\* the row constraints an INSERT or UPDATE must meet
RowAccepted(w, row) ==
  /\ QuestionFree(w, row.question, row.id)
  /\ row.user_id # NoneVal
  /\ row.answer # NoneStr
  /\ row.confidence = NoneVal \/ (row.confidence >= 0 /\ row.confidence <= 5)

\* create_fact: success is left in w.ret; the saved object carries its new id
create_fact(w) ==
  LET row == [CU(w).tmp_fact EXCEPT
                !.id = w.nextFactId,
                !.last_seen = IF @ = NoDate THEN utcnow ELSE @]
  IN  IF RowAccepted(w, row)
      THEN [w EXCEPT !.facts = @ \cup {row}, !.nextFactId = @ + 1,
                     !.current_user = << [CU(w) EXCEPT !.tmp_fact = row] >>,
                     !.ret = TRUE]
      ELSE [w EXCEPT !.ret = FALSE]

\* update_fact without its try/except: a refused update escapes as an exception
update_fact_raising(w, fact_id) ==
  LET found == FactsById(w, fact_id)
  IN  IF Cardinality(found) # 1 THEN Raise(w)
      ELSE LET fact == CHOOSE f \in found : TRUE
               row == [fact EXCEPT !.question = CU(w).tmp_fact.question,
                                   !.answer = CU(w).tmp_fact.answer]
           IN  IF RowAccepted(w, row)
               THEN [w EXCEPT !.facts = (@ \ {fact}) \cup {row}, !.ret = TRUE]
               ELSE Raise(w)

\* update_fact: .one() raises unless exactly one row matches
update_fact(w, fact_id) ==
  LET found == FactsById(w, fact_id)
  IN  IF Cardinality(found) # 1 THEN [w EXCEPT !.ret = FALSE]
      ELSE LET fact == CHOOSE f \in found : TRUE
               row == [fact EXCEPT !.question = CU(w).tmp_fact.question,
                                   !.answer = CU(w).tmp_fact.answer]
           IN  IF RowAccepted(w, row)
               THEN [w EXCEPT !.facts = (@ \ {fact}) \cup {row}, !.ret = TRUE]
               ELSE [w EXCEPT !.ret = FALSE]

\* upsert_fact
upsert_fact(w, fact_id) ==
  IF Truthy(fact_id) THEN update_fact(w, fact_id) ELSE create_fact(w)

\* get_fact: << >> for None, else the row; int() decides which column is searched
get_fact(w, fact_id) ==
  LET found == IF IntParses(fact_id) THEN FactsById(w, IntOf(fact_id))
               ELSE FactsByQuestion(w, fact_id)
  IN  IF found = {} THEN << >> ELSE << CHOOSE f \in found : TRUE >>

\* delete_fact
delete_fact(w, fact_id) ==
  LET found == FactsById(w, fact_id)
  IN  IF Cardinality(found) # 1 THEN [w EXCEPT !.ret = FALSE]
      ELSE [w EXCEPT !.facts = @ \ found, !.ret = TRUE]

\* get_user_facts
get_user_facts(w, sender_id) == {f \in w.facts : f.user_id = get_user(w, sender_id)}

\* get_facts_for_display
get_facts_for_display(w, sender_id, include_confidence_and_last_seen) ==
  {IF include_confidence_and_last_seen
   THEN [id |-> f.id, question |-> f.question, answer |-> f.answer,
         confidence |-> f.confidence, last_seen |-> f.last_seen]
   ELSE [id |-> f.id, question |-> f.question, answer |-> f.answer,
         confidence |-> NoneVal, last_seen |-> NoDate]
   : f \in get_user_facts(w, sender_id)}

(* ------------------------------ NLP entities -------------------------- *)
\* one candidate of an entity category
Cand(confidence, value) == [confidence |-> confidence, value |-> value]
\* the "entities" dictionary: a missing key is the empty list
Entities(greetings, intent, duration) ==
  [greetings |-> greetings, intent |-> intent, duration |-> duration]

\* get_nlp_duration
get_nlp_duration(nlp_entities, min_conf_threshold) ==
  IF nlp_entities.duration # << >>
     /\ nlp_entities.duration[1].confidence > min_conf_threshold
  THEN nlp_entities.duration[1].value
  ELSE NoneVal

\* msg_contains_greeting
msg_contains_greeting(nlp_entities, min_conf_threshold) ==
  /\ nlp_entities.greetings # << >>
  /\ nlp_entities.greetings[1].confidence > min_conf_threshold

\* get_strongest_intent: the loop runs over the dictionary's keys, so the one
\* 'intent' key is met once and only its first candidate is read
get_strongest_intent(nlp_entities, min_conf_threshold) ==
  IF nlp_entities.intent # << >>
     /\ nlp_entities.intent[1].confidence > min_conf_threshold
  THEN nlp_entities.intent[1].value
  ELSE "default_intent"

(* ------------------------- the state machine -------------------------- *)
Say(w, msg) == [w EXCEPT !.bot_msg = msg]
\* an assignment to current_user.tmp_fact that is left out
SetTmpFact_skipped(w, fact) == w
SetTmpFact(w, fact) == [w EXCEPT !.current_user = << [CU(w) EXCEPT !.tmp_fact = fact] >>]

NoSuchFact == Plain("Whoops! We don't have a fact for you. Try viewing your facts to get the ID.")

\* the "silence_studying" confirmation: the shown time is now + duration_seconds
SilenceReply(duration_seconds) ==
  Reply("Ok, silencing study notifications until %s.", "", {}, FALSE,
        NoneStr, NoneStr, duration_seconds)

\* convo_state == State.DEFAULT
StepDefault(w, sender_id, nlp) ==
  IF msg_contains_greeting(nlp, MIN_CONFIDENCE_THRESHOLD)
  THEN send_greeting_message(w, sender_id)
  ELSE
    LET strongest_intent == get_strongest_intent(nlp, MIN_CONFIDENCE_THRESHOLD)
        wi == [w EXCEPT !.intent = strongest_intent]
    IN  CASE strongest_intent = "add_fact" ->
               set_convo_state(
                 SetTmpFact(Say(wi, Plain("Ok, let's add that new fact. What is the question?")),
                            Fact(CU(wi).user_id)),
                 sender_id, "WAITING_FOR_FACT_QUESTION")
          [] strongest_intent = "change_fact" ->
               set_convo_state(
                 Say(wi, Reply("Ok, which fact do you want to change?", "",
                               get_facts_for_display(wi, sender_id, FALSE), FALSE,
                               NoneStr, NoneStr, NoneVal)),
                 sender_id, "WAITING_FOR_FACT_TO_CHANGE")
          [] strongest_intent = "silence_studying" ->
               LET duration_seconds == get_nlp_duration(nlp, MIN_CONFIDENCE_THRESHOLD)
               IN  IF Truthy(duration_seconds)
                   THEN Say(wi, SilenceReply(duration_seconds))
                   ELSE set_convo_state(
                          Say(wi, Plain("Ok, how long do you want to silence notifications for?")),
                          sender_id, "WAITING_FOR_SILENCE_DURATION")
          [] strongest_intent = "view_facts" ->
               Say(wi, Reply("Ok, here are the facts we have.", "",
                             get_facts_for_display(wi, sender_id, TRUE), TRUE,
                             NoneStr, NoneStr, NoneVal))
          [] strongest_intent = "delete_fact" ->
               set_convo_state(
                 Say(wi, Reply("Ok, which fact do you want to delete?", "",
                               get_facts_for_display(wi, sender_id, FALSE), FALSE,
                               NoneStr, NoneStr, NoneVal)),
                 sender_id, "WAITING_FOR_FACT_TO_DELETE")
          [] strongest_intent = "study_next_fact" -> wi
          [] strongest_intent = "default_intent" ->
               set_convo_state(Say(wi, Plain("I'm not sure what you mean.")),
                               sender_id, CU(wi).state)
          [] OTHER -> wi

\* WAITING_FOR_FACT_TO_CHANGE that keeps asking until the message names a fact
StepWaitingForFactToChange_asking(w, sender_id, sender_msg) ==
  LET tmp_fact == get_fact(w, unicode_escape_decode(sender_msg))
  IN  IF tmp_fact = << >>
      THEN set_convo_state(Say(w, NoSuchFact), sender_id, "WAITING_FOR_FACT_TO_CHANGE")
      ELSE set_convo_state(
             Say(SetTmpFact(w, tmp_fact[1]),
                 Plain("Ok, let's update that new fact. What is the question?")),
             sender_id, "WAITING_FOR_FACT_QUESTION")

\* convo_state == State.WAITING_FOR_FACT_TO_CHANGE
StepWaitingForFactToChange(w, sender_id, sender_msg) ==
  LET tmp_fact == get_fact(w, unicode_escape_decode(sender_msg))
  IN  IF tmp_fact = << >>
      THEN set_convo_state(Say(w, NoSuchFact), sender_id, "DEFAULT")
      ELSE set_convo_state(
             Say(SetTmpFact(w, tmp_fact[1]),
                 Plain("Ok, let's update that new fact. What is the question?")),
             sender_id, "WAITING_FOR_FACT_QUESTION")

\* WAITING_FOR_FACT_TO_DELETE that deletes the fact it found without asking
StepWaitingForFactToDelete_unasked(w, sender_id, sender_msg) ==
  LET tmp_fact == get_fact(w, unicode_escape_decode(sender_msg))
  IN  IF tmp_fact = << >>
      THEN set_convo_state(Say(w, NoSuchFact), sender_id, "DEFAULT")
      ELSE set_convo_state(
             Say(delete_fact(w, tmp_fact[1].id), Plain("Fact deleted successfully.")),
             sender_id, "DEFAULT")

\* convo_state == State.WAITING_FOR_FACT_TO_DELETE
StepWaitingForFactToDelete(w, sender_id, sender_msg) ==
  LET tmp_fact == get_fact(w, unicode_escape_decode(sender_msg))
  IN  IF tmp_fact = << >>
      THEN set_convo_state(Say(w, NoSuchFact), sender_id, "DEFAULT")
      ELSE set_convo_state(
             Say(SetTmpFact(w, tmp_fact[1]),
                 Reply("Are you sure you want to delete this fact?", "", {}, FALSE,
                       tmp_fact[1].question, tmp_fact[1].answer, NoneVal)),
             sender_id, "CONFIRM_FACT_DELETE")

\* convo_state == State.CONFIRM_FACT_DELETE
StepConfirmFactDelete(w, sender_id, sender_msg) ==
  LET confirmed == Lower(unicode_escape_decode(sender_msg)) \in CONFIRMATIONS
      wd == IF confirmed THEN delete_fact(w, CU(w).tmp_fact.id) ELSE w
      wm == IF confirmed /\ wd.ret
            THEN Say(wd, Plain("Fact deleted successfully."))
            ELSE Say(wd, Plain("Failed to delete fact."))
  IN  set_convo_state(SetTmpFact(wm, Fact(CU(wm).user_id)), sender_id, "DEFAULT")

\* convo_state == State.WAITING_FOR_FACT_QUESTION
StepWaitingForFactQuestion(w, sender_id, sender_msg) ==
  LET wq == SetTmpFact(w, [CU(w).tmp_fact EXCEPT
                             !.user_id = CU(w).user_id,
                             !.question = unicode_escape_decode(sender_msg)])
  IN  Say(set_convo_state(wq, sender_id, "WAITING_FOR_FACT_ANSWER"),
          Plain("Thanks, what's the answer to that question?"))

\* convo_state == State.WAITING_FOR_FACT_ANSWER
StepWaitingForFactAnswer(w, sender_id, sender_msg) ==
  LET wa == SetTmpFact(w, [CU(w).tmp_fact EXCEPT
                             !.answer = unicode_escape_decode(sender_msg)])
      update == Truthy(CU(wa).tmp_fact.id)
      wu == upsert_fact(wa, CU(wa).tmp_fact.id)
      wm == IF wu.ret
            THEN Say(wu, Reply(IF update
                               THEN "Ok, I updated the following question and answer:"
                               ELSE "Ok, I created the following question and answer:",
                               "", {}, FALSE,
                               CU(wu).tmp_fact.question, CU(wu).tmp_fact.answer, NoneVal))
            ELSE Say(wu, Plain(IF update THEN "We couldn't update that fact."
                                         ELSE "We couldn't create that fact."))
  IN  set_convo_state(wm, sender_id, "DEFAULT")

\* convo_state == State.WAITING_FOR_SILENCE_DURATION
StepWaitingForSilenceDuration(w, sender_id, nlp) ==
  LET duration_seconds == get_nlp_duration(nlp, MIN_CONFIDENCE_THRESHOLD)
  IN  set_convo_state(
        Say(w, IF Truthy(duration_seconds) THEN SilenceReply(duration_seconds)
               ELSE Plain("Sorry, I couldn't get a duration from that.")),
        sender_id, "DEFAULT")

\* convo_state = current_user.state
ReadConvoState(w) ==
  IF w.exc THEN w ELSE [w EXCEPT !.convo_state = CU(w).state]

\* the if/elif chain on convo_state
Dispatch(w, sender_id, sender_msg, nlp) ==
  IF w.exc THEN w
  ELSE CASE w.convo_state = "DEFAULT" -> StepDefault(w, sender_id, nlp)
         [] w.convo_state = "WAITING_FOR_FACT_TO_CHANGE" ->
              StepWaitingForFactToChange(w, sender_id, sender_msg)
         [] w.convo_state = "WAITING_FOR_FACT_TO_DELETE" ->
              StepWaitingForFactToDelete(w, sender_id, sender_msg)
         [] w.convo_state = "CONFIRM_FACT_DELETE" ->
              StepConfirmFactDelete(w, sender_id, sender_msg)
         [] w.convo_state = "WAITING_FOR_FACT_QUESTION" ->
              StepWaitingForFactQuestion(w, sender_id, sender_msg)
         [] w.convo_state = "WAITING_FOR_FACT_ANSWER" ->
              StepWaitingForFactAnswer(w, sender_id, sender_msg)
         [] w.convo_state = "WAITING_FOR_SILENCE_DURATION" ->
              StepWaitingForSilenceDuration(w, sender_id, nlp)

(* ------------------------------ the webhook --------------------------- *)
NotText == << "N", "o", "t", " ", "t", "e", "x", "t" >>

\* sender_msg as handle_messages computes it from the event
SenderMsg(text) == IF text # << >> THEN unicode_escape_encode(text) ELSE NotText

\* handle_messages up to the state machine: typing on, then first contact
\* (create the user, welcome, persist DEFAULT) or restore_convo_state
EventBegin(w, sender_id) ==
  LET w1 == change_typing_indicator(w, TRUE, sender_id)
  IN  IF w1.exc THEN w1
      ELSE IF w1.fault = "store" THEN Raise(w1)
      ELSE IF is_first_time_user(w1, sender_id)
           THEN set_convo_state(
                  send_welcome_message(create_user([w1 EXCEPT !.first = TRUE], sender_id),
                                       sender_id),
                  sender_id, "DEFAULT")
           ELSE restore_convo_state(w1, sender_id)

\* handle_messages after convo_state was read: the branch taken, the reply,
\* typing off
EventEnd(w, sender_id, sender_msg, nlp) ==
  LET w1 == IF w.first THEN w
            ELSE LET ws == Dispatch(w, sender_id, sender_msg, nlp)
                 IN  send_message(ws, sender_id, ws.bot_msg, TRUE)
  IN  change_typing_indicator(w1, FALSE, sender_id)

\* handle_messages for one messaging event that carries a "message"
handle_messages(w, sender_id, text, nlp) ==
  LET w1 == EventBegin(w, sender_id)
      w2 == IF w1.first THEN w1 ELSE ReadConvoState(w1)
  IN  EventEnd(w2, sender_id, SenderMsg(text), nlp)

(* ------------------------------ inputs -------------------------------- *)
Intents == {"add_fact", "change_fact", "silence_studying", "view_facts",
            "delete_fact", "study_next_fact", "default_intent", "tell_joke"}

NoEntities == Entities(<< >>, << >>, << >>)
\* entity dictionaries the upstream classifier attaches to a command
NlpInputs ==
  {Entities(<< Cand(9, "true") >>, << >>, << >>)}
  \cup {Entities(<< >>, << Cand(9, v) >>, << >>) : v \in Intents}
  \cup {Entities(<< >>, << Cand(9, "silence_studying") >>, << Cand(9, 3600) >>)}
  \cup {Entities(<< >>, << >>, << Cand(9, 3600) >>)}

\* the text of the messages that the classifier tags with entities
CommandText == << "1" >>

Payload(text, nlp) == [text |-> text, nlp |-> nlp]
\* message events: free text that carries no entity, and tagged commands
Payloads ==
  {Payload(text, NoEntities) : text \in Msgs}
  \cup {Payload(CommandText, nlp) : nlp \in NlpInputs}

Greeting == Payload(CommandText, Entities(<< Cand(9, "true") >>, << >>, << >>))
\* the events during which a collaborator is down
FaultCases ==
  { << Greeting, "profile" >>, << Payload(CommandText, NoEntities), "cache" >>,
    << Payload(CommandText, NoEntities), "store" >>,
    << Payload(CommandText, NoEntities), "send" >> }

(* ------------------------------ state --------------------------------- *)
VARIABLES
  users,         \* the users table: sender id -> User.id, 0 when there is no row
  facts,         \* the facts table
  nextFactId,    \* the next id the facts table assigns
  cache,         \* Redis: sender id -> << >> or << [data, ttl] >>
  current_user,  \* the module global: << >> (None) or << ConvoState >>
  events,        \* message events handled so far
  last,          \* the request handled by the latest step, as seen from outside
  thr,           \* the server's request threads: position, event and locals
  nlp_entities,      \* the entities handed to get_strongest_intent on its own
  strongest_intent   \* what it returned, "-" before the call

vars == << users, facts, nextFactId, cache, current_user, events, last, thr,
           nlp_entities, strongest_intent >>
\* the classifier call on its own is not part of handling an event
NoCall == nlp_entities = NoEntities /\ strongest_intent = "-"

NoRequest ==
  [kind |-> "none", sender |-> "", text |-> << >>, first |-> FALSE, hit |-> "-",
   convo_state |-> "-", intent |-> "-", sent |-> << >>, actions |-> << >>,
   fault |-> "none", status |-> 0]

\* what every request shares: the store, the cache and the module global
Globals ==
  [users |-> users, facts |-> facts, nextFactId |-> nextFactId, cache |-> cache,
   current_user |-> current_user]

\* the locals of a request at its start, and what it has sent so far
Locals(fault, randint) ==
  [sent |-> << >>, actions |-> << >>, exc |-> FALSE, ret |-> FALSE,
   bot_msg |-> EmptyReply, fault |-> fault, randint |-> randint,
   first |-> FALSE, hit |-> "-", convo_state |-> "-", intent |-> "-"]
LocalsOf(w) == [k \in DOMAIN Locals("none", 0) |-> w[k]]

\* everything one request can read or write, at its start
Request(fault, randint) == Globals @@ Locals(fault, randint)

\* what the request left behind
Commit(w) ==
  /\ users' = w.users
  /\ facts' = w.facts
  /\ nextFactId' = w.nextFactId
  /\ cache' = w.cache
  /\ current_user' = w.current_user

Threads == {1, 2}
IdleThread ==
  [pc |-> "idle", sender |-> "", text |-> << >>, nlp |-> NoEntities,
   local |-> Locals("none", 0)]

\* a fact of user 1 that the store holds when the process starts
SeedFact ==
  [id |-> 1, user_id |-> 1, question |-> << "Y", "E", "S" >>, answer |-> << "1" >>,
   confidence |-> NoneVal, last_seen |-> utcnow]

\* the cache entry of a sender who was asked which fact to delete
SeedEntry ==
  [data |-> ConvoSerialize(ConvoState(1, "WAITING_FOR_FACT_TO_DELETE")),
   ttl |-> CACHE_EXPIRATION_IN_SECONDS]

\* The process starts with current_user = None.  The store and the cache outlive
\* the process: they are empty (a fresh deployment), or hold user s1 with one
\* fact and s1's conversation in progress (a restart).
Init ==
  /\ \/ /\ users = [s \in Senders |-> 0]
        /\ facts = {}
        /\ nextFactId = 1
        /\ cache = [s \in Senders |-> << >>]
     \/ /\ users = [s \in Senders |-> IF s = "s1" THEN 1 ELSE 0]
        /\ facts = {SeedFact}
        /\ nextFactId = 2
        /\ cache = [s \in Senders |-> IF s = "s1" THEN << SeedEntry >> ELSE << >>]
  /\ current_user = << >>
  /\ events = 0
  /\ last = NoRequest
  /\ thr = [t \in Threads |-> IdleThread]
  /\ NoCall

\* POST / with one messaging event that carries a message
HandleMessage(sender_id, text, nlp, fault, randint) ==
  /\ events < (IF nlp = NoEntities /\ fault = "none" THEN MaxEvents ELSE MaxCommands)
  /\ events' = events + 1
  /\ LET w == handle_messages(Request(fault, randint), sender_id, text, nlp)
     IN  /\ w.nextFactId <= MaxFacts + 1
         /\ Commit(w)
         /\ UNCHANGED << thr, nlp_entities, strongest_intent >>
         /\ last' = [kind |-> "message", sender |-> sender_id, text |-> text,
                     first |-> w.first, hit |-> w.hit, convo_state |-> w.convo_state,
                     intent |-> w.intent, sent |-> w.sent, actions |-> w.actions,
                     fault |-> fault, status |-> IF w.exc THEN 500 ELSE 200]

\* CACHE_EXPIRATION_IN_SECONDS pass without a message: Redis drops the entries
Tick ==
  /\ \E s \in Senders : cache[s] # << >>
  /\ cache' = [s \in Senders |-> << >>]
  /\ last' = NoRequest
  /\ UNCHANGED << users, facts, nextFactId, current_user, events, thr,
                  nlp_entities, strongest_intent >>

Next ==
  \/ \E sender_id \in Senders, p \in Payloads :
       \E randint \in IF msg_contains_greeting(p.nlp, MIN_CONFIDENCE_THRESHOLD)
                      THEN 0..2 ELSE {0} :
         HandleMessage(sender_id, p.text, p.nlp, "none", randint)
  \/ \E sender_id \in Senders, c \in FaultCases :
       HandleMessage(sender_id, c[1].text, c[1].nlp, c[2], 0)
  \/ Tick

\* one request at a time, each handled from start to end
Spec == Init /\ [][Next]_vars

(* --------------------- two requests served at once --------------------- *)
\* the store and the cache of a restarted deployment (see Init)
InitConc ==
  /\ users = [s \in Senders |-> IF s = "s1" THEN 1 ELSE 0]
  /\ facts = {SeedFact}
  /\ nextFactId = 2
  /\ cache = [s \in Senders |-> IF s = "s1" THEN << SeedEntry >> ELSE << >>]
  /\ current_user = << >>
  /\ events = 0
  /\ last = NoRequest
  /\ thr = [t \in Threads |-> IdleThread]
  /\ NoCall

\* a request as thread t sees it: the shared state now, its own locals
ThreadRequest(t) == Globals @@ thr[t].local

Park(t, pc, w) == thr' = [thr EXCEPT ![t].pc = pc, ![t].local = LocalsOf(w)]

\* thread t takes an event: typing on, then first contact or restore_convo_state
ThreadBegin(t, sender_id, text, nlp) ==
  /\ thr[t].pc = "idle"
  /\ LET w == EventBegin(Request("none", 0), sender_id)
     IN  /\ Commit(w)
         /\ thr' = [thr EXCEPT ![t] = [pc |-> IF w.first \/ w.exc THEN "act" ELSE "read",
                                       sender |-> sender_id, text |-> text, nlp |-> nlp,
                                       local |-> LocalsOf(w)]]
  /\ UNCHANGED << events, last, nlp_entities, strongest_intent >>

\* thread t reads convo_state = current_user.state from the module global
ThreadRead(t) ==
  /\ thr[t].pc = "read"
  /\ LET w == ReadConvoState(ThreadRequest(t))
     IN  Commit(w) /\ Park(t, "act", w)
  /\ UNCHANGED << events, last, nlp_entities, strongest_intent >>

\* thread t runs the branch of its convo_state, replies and switches typing off
ThreadAct(t) ==
  /\ thr[t].pc = "act"
  /\ LET w == EventEnd(ThreadRequest(t), thr[t].sender, SenderMsg(thr[t].text),
                       thr[t].nlp)
     IN  /\ w.nextFactId <= MaxFacts + 1
         /\ Commit(w)
         /\ Park(t, "done", w)
  /\ UNCHANGED << events, last, nlp_entities, strongest_intent >>

NextConc ==
  \/ \E t \in Threads, sender_id \in Senders, p \in Payloads :
       ThreadBegin(t, sender_id, p.text, p.nlp)
  \/ \E t \in Threads : ThreadRead(t)
  \/ \E t \in Threads : ThreadAct(t)

\* two threads of one process, each serving one request, steps interleaved
SpecConc == InitConc /\ [][NextConc]_vars

\* the cache entry that set_convo_state writes for a ConvoState
EntryOf(cs) == << [data |-> ConvoSerialize(cs), ttl |-> CACHE_EXPIRATION_IN_SECONDS] >>

(* ------------------- single turns of ongoing dialogues ----------------- *)
\* the number of events handled from a start of InitTurn
MaxTurns == 2

\* the texts users type: fact ids and questions in either letter case
TurnMsgs == { <<"1">>, <<"2">>, <<"Y", "E", "S">>, <<"y", "e", "s">> }

\* the duration candidates of the classifier: confident, naming no time at
\* all, and exactly at the threshold
Durations == { << >>, << Cand(9, 3600) >>, << Cand(9, 0) >>,
               << Cand(MIN_CONFIDENCE_THRESHOLD, 3600) >> }

TurnPayloads ==
  {Payload(text, NoEntities) : text \in TurnMsgs}
  \cup {Payload(CommandText, Entities(<< >>, << Cand(9, v) >>, << >>)) :
          v \in {"add_fact", "change_fact", "delete_fact"}}
  \cup {Payload(CommandText, Entities(<< >>, << Cand(9, "silence_studying") >>, d)) :
          d \in Durations}
  \cup {Payload(CommandText, Entities(<< >>, << >>, d)) : d \in Durations \ {<< >>}}

\* a fact as the add-fact flow stored it
StoredFact(user_id, id, question) ==
  [Fact(user_id) EXCEPT !.id = id, !.question = question, !.answer = << "1" >>,
                        !.last_seen = utcnow]

\* the draft of a dialogue in progress: empty, typed so far, or a fact picked
\* for change or deletion as restore_convo_state and set_convo_state keep it
DraftsOf(user_id, state, store) ==
  CASE state \in {"WAITING_FOR_FACT_QUESTION"} ->
         {Fact(user_id)} \cup {f \in store : f.user_id = user_id}
    [] state = "CONFIRM_FACT_DELETE" -> {f \in store : f.user_id = user_id}
    [] state = "WAITING_FOR_FACT_ANSWER" ->
         {[Fact(user_id) EXCEPT !.question = q] : q \in TurnMsgs}
         \cup {[f EXCEPT !.question = q, !.last_seen = NoDate] :
                 f \in {g \in store : g.user_id = user_id},
                                           q \in TurnMsgs}
    [] OTHER -> {Fact(user_id)}

\* the dialogues of user_id that can be under way over a store
Dialogues(user_id, store) ==
  UNION {{[ConvoState(user_id, state) EXCEPT !.tmp_fact = d] :
            d \in DraftsOf(user_id, state, store)} :
         state \in {StateNames[i] : i \in 1..Len(StateNames)}}

\* both senders are known users, the store holds one or two facts of user 1, sender
\* s1 is anywhere in a dialogue and sender s2 is about to type a question
InitTurn ==
  /\ users = [s \in Senders |-> IF s = "s1" THEN 1 ELSE 2]
  /\ \E q \in TurnMsgs :
       \/ facts = {StoredFact(1, 1, q)}
       \/ q # << "2" >> /\ facts = {StoredFact(1, 1, q), StoredFact(1, 2, << "2" >>)}
  /\ nextFactId = Cardinality(facts) + 1
  /\ \E cs \in Dialogues(1, facts) :
       cache = [s \in Senders |->
                  IF s = "s1" THEN EntryOf(cs)
                  ELSE EntryOf(ConvoState(2, "WAITING_FOR_FACT_QUESTION"))]
  /\ current_user = << >>
  /\ events = 0
  /\ last = NoRequest
  /\ thr = [t \in Threads |-> IdleThread]
  /\ NoCall

\* POST / with one message, every collaborator up
HandleTurn(sender_id, text, nlp) ==
  /\ events < MaxTurns
  /\ HandleMessage(sender_id, text, nlp, "none", 0)

NextTurn == \E sender_id \in Senders, p \in TurnPayloads :
              HandleTurn(sender_id, p.text, p.nlp)

\* a few turns from every point of a dialogue
SpecTurn == InitTurn /\ [][NextTurn]_vars

(* ----------------------- the classifier's intents ----------------------- *)
\* the longest list of intent candidates
MaxCands == 2
\* confidences around the threshold, in tenths
Confidences == {6, MIN_CONFIDENCE_THRESHOLD, 8, 9}

RECURSIVE CandLists(_)
\* the lists of at most n intent candidates
CandLists(n) ==
  IF n = 0 THEN { << >> }
  ELSE LET shorter == CandLists(n - 1)
       IN  shorter \cup {Append(l, Cand(c, v)) :
                           l \in {k \in shorter : Len(k) = n - 1},
                           c \in Confidences, v \in {"add_fact", "view_facts"}}

\* an entities dictionary arrives, with or without a greeting beside the intents
InitIntent ==
  /\ users = [s \in Senders |-> 0]
  /\ facts = {}
  /\ nextFactId = 1
  /\ cache = [s \in Senders |-> << >>]
  /\ current_user = << >>
  /\ events = 0
  /\ last = NoRequest
  /\ thr = [t \in Threads |-> IdleThread]
  /\ \E g \in { << >>, << Cand(9, "true") >> }, l \in CandLists(MaxCands) :
       nlp_entities = Entities(g, l, << >>)
  /\ strongest_intent = "-"

\* strongest_intent = get_strongest_intent(nlp["entities"], MIN_CONFIDENCE_THRESHOLD)
CallGetStrongestIntent ==
  /\ strongest_intent = "-"
  /\ strongest_intent' = get_strongest_intent(nlp_entities, MIN_CONFIDENCE_THRESHOLD)
  /\ UNCHANGED << users, facts, nextFactId, cache, current_user, events, last, thr,
                  nlp_entities >>

SpecIntent == InitIntent /\ [][CallGetStrongestIntent]_vars

(* ------------------------------ claims --------------------------------- *)
\* the request of the latest step was a message event handled with every
\* collaborator up
Handled == last.kind = "message" /\ last.fault = "none"
\* the same, of the step being taken
HandledNow == last'.kind = "message" /\ last'.fault = "none"

\* C1: after the first message of a sender without a User record, the User
\* record exists and the state persisted for that sender is DEFAULT with the
\* sender's own user id and an empty draft fact.
C1_FirstContactPersistsDefault ==
  (Handled /\ last.first) =>
    /\ users[last.sender] # 0
    /\ cache[last.sender] = EntryOf(ConvoState(users[last.sender], "DEFAULT"))

\* C4: every message event handled by handle_messages ends with the success
\* acknowledgement, whichever collaborator failed while it was handled.
C4_AlwaysAcknowledged == last.kind = "message" => last.status = 200

\* C8: after every event handled for an existing user the cache holds an entry
\* for the sender that equals the resulting conversation state, with a
\* time-to-live of CACHE_EXPIRATION_IN_SECONDS.
C8_StatePersistedEveryTurn ==
  (Handled /\ ~ last.first /\ last.status = 200) =>
    cache[last.sender] = EntryOf(CU([current_user |-> current_user]))

\* C9: serializing a ConversationState and restoring it reproduces the state,
\* the user id and every field of the draft fact, and serializing the restored
\* state yields the same snapshot again.
C9_SnapshotRoundTrip ==
  current_user # << >> =>
    LET cs == current_user[1]
        back == RestoreFromSnapshot(ConvoSerialize(cs))
    IN  /\ back = cs
        /\ ConvoSerialize(back) = ConvoSerialize(cs)

\* C10: a message event that switched the typing indicator on has switched it
\* off again when its handling ends, whatever the outcome.
C10_TypingOffAfterTypingOn ==
  (last.kind = "message" /\ last.actions # << >> /\ last.actions[1] = "typing_on") =>
    last.actions = << "typing_on", "typing_off" >>

\* the parsed cache entry of a sender before the step
Snapshot(sender_id) == cache[sender_id][1].data
\* the state persisted for a sender after the step
PersistedState(sender_id) == StateOfValue(cache'[sender_id][1].data.state)
\* the one text sent by the request of the step
OnlyReply == last'.sent[1].msg

\* C2: the facts created, changed or deleted while an event of sender S is
\* handled are owned by S's User record, and so is a fact that a lookup
\* made for S's event found.
C2_FactAccessScopedToSender ==
  [][ HandledNow =>
        LET s == last'.sender
        IN  /\ \A f \in (facts' \ facts) \cup (facts \ facts') : f.user_id = users'[s]
            /\ ( /\ last'.convo_state \in {"WAITING_FOR_FACT_TO_CHANGE",
                                           "WAITING_FOR_FACT_TO_DELETE"}
                 /\ current_user'[1].tmp_fact.id # NoneVal )
               => current_user'[1].tmp_fact.user_id = users'[s]
    ]_vars

\* C5: in state CONFIRM_FACT_DELETE the draft fact is removed from the store
\* exactly when the lower-cased message is a confirmation word; either way
\* the next state is DEFAULT with an empty draft, and the reply confirms the
\* deletion exactly when the fact was removed and reports failure otherwise.
C5_ConfirmDeleteDecides ==
  [][ (HandledNow /\ last'.convo_state = "CONFIRM_FACT_DELETE") =>
        LET s == last'.sender
            draft == Snapshot(s).tmp_fact
            confirmed == Lower(last'.text) \in CONFIRMATIONS
            removed == /\ \E f \in facts : f.id = draft.id
                       /\ ~ \E f \in facts' : f.id = draft.id
            after == current_user'[1]
        IN  /\ removed <=> confirmed
            /\ facts' \subseteq facts
            /\ after.state = "DEFAULT"
            /\ after.tmp_fact = Fact(after.user_id)
            /\ cache'[s] = EntryOf(after)
            /\ last'.sent = << [to |-> s, type |-> "RESPONSE",
                                msg |-> IF removed
                                        THEN Plain("Fact deleted successfully.")
                                        ELSE Plain("Failed to delete fact.")] >>
    ]_vars

\* C6: with the cache entry kept between the turns, an add_fact intent in
\* DEFAULT leads to WAITING_FOR_FACT_QUESTION, the question message Q to
\* WAITING_FOR_FACT_ANSWER, and the answer message A, when no fact with
\* question Q was stored, to DEFAULT with exactly one new fact (Q, A) owned
\* by the sender's user and the reply that confirms the creation.
C6_AddFactFlow ==
  [][ (HandledNow /\ ~ last'.first /\ last'.status = 200) =>
        LET s == last'.sender
            from == last'.convo_state
        IN  /\ (from = "DEFAULT" /\ last'.intent = "add_fact")
               => /\ PersistedState(s) = "WAITING_FOR_FACT_QUESTION"
                  /\ cache'[s][1].data.tmp_fact.id = NoneVal
            /\ (from = "WAITING_FOR_FACT_QUESTION" /\ Snapshot(s).tmp_fact.id = NoneVal)
               => /\ PersistedState(s) = "WAITING_FOR_FACT_ANSWER"
                  /\ cache'[s][1].data.tmp_fact.question = last'.text
                  /\ cache'[s][1].data.tmp_fact.id = NoneVal
            /\ ( /\ from = "WAITING_FOR_FACT_ANSWER"
                 /\ Snapshot(s).tmp_fact.id = NoneVal
                 /\ ~ \E f \in facts : f.question = Snapshot(s).tmp_fact.question )
               => /\ PersistedState(s) = "DEFAULT"
                  /\ \E f \in facts' :
                       /\ f \notin facts
                       /\ facts' = facts \cup {f}
                       /\ f.question = Snapshot(s).tmp_fact.question
                       /\ f.answer = last'.text
                       /\ f.user_id = users[s]
                  /\ Len(last'.sent) = 1
                  /\ OnlyReply.text = "Ok, I created the following question and answer:"
                  /\ OnlyReply.q = Snapshot(s).tmp_fact.question
                  /\ OnlyReply.a = last'.text
    ]_vars

\* C7: when the cache holds no entry for an existing user at the start of a
\* turn, the turn is handled from state DEFAULT with the user id of the
\* store's User record and an empty draft; it writes nothing to the fact
\* store and leaves no draft content behind.
C7_CacheMissRebuildsDefault ==
  [][ (HandledNow /\ users[last'.sender] # 0 /\ cache[last'.sender] = << >>) =>
        LET s == last'.sender
            after == current_user'[1]
        IN  /\ last'.hit = "miss"
            /\ last'.convo_state = "DEFAULT"
            /\ facts' = facts
            /\ after.user_id = users[s]
            /\ after.tmp_fact = Fact(users[s])
            /\ cache'[s] # << >> => cache'[s] = EntryOf(after)
    ]_vars

\* a turn of an existing user that found no cache entry was handled and its
\* resulting state persisted
C7_CacheMissTurnHandled ==
  /\ Handled /\ ~last.first
  /\ last.hit = "miss" /\ last.status = 200
  /\ last.intent = "add_fact"
  /\ cache[last.sender] # << >>
  /\ cache[last.sender][1].data.state = StateValue("WAITING_FOR_FACT_QUESTION")

\* the request that meets the restarted deployment of InitConc
InitialRequest ==
  [users |-> [s \in Senders |-> IF s = "s1" THEN 1 ELSE 0],
   facts |-> {SeedFact},
   nextFactId |-> 2,
   cache |-> [s \in Senders |-> IF s = "s1" THEN << SeedEntry >> ELSE << >>],
   current_user |-> << >>] @@ Locals("none", 0)

\* the next request after request w ended
RequestAfter(w) ==
  [k \in {"users", "facts", "nextFactId", "cache", "current_user"} |-> w[k]]
    @@ Locals("none", 0)

\* the event of thread t1 handled from start to end, then that of thread t2
Serially(t1, t2) ==
  LET w1 == handle_messages(InitialRequest, thr[t1].sender, thr[t1].text, thr[t1].nlp)
  IN  handle_messages(RequestAfter(w1), thr[t2].sender, thr[t2].text, thr[t2].nlp)

\* C3: when two events of one sender were handled at the same time, the cache
\* entry of the sender (state and draft) and the fact store are those that
\* handling the two events one after the other, in one of the two orders,
\* leaves behind.
C3_ConcurrentEventsSerialize ==
  ( /\ \A t \in Threads : thr[t].pc = "done"
    /\ thr[1].sender = thr[2].sender ) =>
      \E o \in { <<1, 2>>, <<2, 1>> } :
        LET r == Serially(o[1], o[2])
        IN  /\ cache[thr[1].sender] = r.cache[thr[1].sender]
            /\ facts = r.facts

\* the intents the DEFAULT branch of handle_messages acts on
ListedIntents == {"add_fact", "change_fact", "silence_studying", "view_facts",
                  "delete_fact", "study_next_fact"}

\* C11: a turn handled in state DEFAULT without a greeting, whose strongest
\* intent is default_intent or any value outside the six listed intents, ends
\* in state DEFAULT, changes no fact, and replies "I'm not sure what you mean."
C11_UnlistedIntentNotSure ==
  [][ (HandledNow /\ last'.convo_state = "DEFAULT"
       /\ last'.intent \notin ListedIntents \cup {"-"}) =>
        /\ current_user'[1].state = "DEFAULT"
        /\ facts' = facts
        /\ Len(last'.sent) = 1
        /\ OnlyReply = Plain("I'm not sure what you mean.")
    ]_vars

\* the facts of the sender of the step being taken, before the step
FactsOfSender == {f \in facts : f.user_id = users[last'.sender]}

\* what the message of the step being taken names among the sender's facts:
\* the fact with that number as id, else the fact with that question
NamedFacts ==
  LET text == last'.text
      byId == {f \in FactsOfSender : IntParses(text) /\ f.id = IntOf(text)}
      byQuestion == {f \in FactsOfSender : f.question = text}
  IN  IF byId # {} THEN byId ELSE byQuestion

\* C12: in WAITING_FOR_FACT_TO_CHANGE and WAITING_FOR_FACT_TO_DELETE the
\* message selects the sender's fact with that numeric id and, when there is
\* none, the sender's fact with exactly that question; only when both lookups
\* find nothing does the turn reply "don't have that fact" and go to DEFAULT.
C12_FactResolvedByIdThenQuestion ==
  [][ (HandledNow /\ last'.convo_state \in {"WAITING_FOR_FACT_TO_CHANGE",
                                            "WAITING_FOR_FACT_TO_DELETE"}) =>
        IF NamedFacts = {}
        THEN OnlyReply = NoSuchFact /\ current_user'[1].state = "DEFAULT"
        ELSE /\ OnlyReply # NoSuchFact
             /\ current_user'[1].state =
                  IF last'.convo_state = "WAITING_FOR_FACT_TO_CHANGE"
                  THEN "WAITING_FOR_FACT_QUESTION" ELSE "CONFIRM_FACT_DELETE"
             /\ \E f \in NamedFacts : current_user'[1].tmp_fact.id = f.id
    ]_vars

\* the draft of the sender of the step being taken, before and after the step
DraftBefore == Snapshot(last'.sender).tmp_fact
DraftAfter == cache'[last'.sender][1].data.tmp_fact

\* C13: the draft of WAITING_FOR_FACT_QUESTION and WAITING_FOR_FACT_ANSWER
\* carries a fact id exactly when the dialogue came through
\* WAITING_FOR_FACT_TO_CHANGE: the question state is entered from
\* WAITING_FOR_FACT_TO_CHANGE with an id and from DEFAULT without one, and the
\* answer state is entered only from the question state with the id as it was.
\* The WAITING_FOR_FACT_ANSWER step with an id changes at most the question and
\* answer of that fact and keeps the number of facts; without an id it leaves
\* every existing fact as it is and adds at most one.
C13_DraftIdOnlyThroughChange ==
  [][ (HandledNow /\ last'.status = 200 /\ ~last'.first) =>
        LET s == last'.sender
            from == last'.convo_state
        IN  /\ (cache'[s] # << >> /\ cache'[s] # cache[s]
                /\ PersistedState(s) = "WAITING_FOR_FACT_QUESTION") =>
                 \/ from = "WAITING_FOR_FACT_TO_CHANGE" /\ DraftAfter.id # NoneVal
                 \/ from = "DEFAULT" /\ DraftAfter.id = NoneVal
            /\ (cache'[s] # << >> /\ cache'[s] # cache[s]
                /\ PersistedState(s) = "WAITING_FOR_FACT_ANSWER") =>
                 /\ from = "WAITING_FOR_FACT_QUESTION"
                 /\ DraftAfter.id = DraftBefore.id
            /\ from = "WAITING_FOR_FACT_ANSWER" =>
                 IF DraftBefore.id # NoneVal
                 THEN /\ Cardinality(facts') = Cardinality(facts)
                      /\ \A f \in facts : f.id # DraftBefore.id => f \in facts'
                      /\ \A f \in facts' : \E g \in facts :
                           g.id = f.id /\ g.user_id = f.user_id
                 ELSE /\ facts \subseteq facts'
                      /\ Cardinality(facts' \ facts) <= 1
    ]_vars

\* a fact was changed in place through the change-fact dialogue
C13_FactUpdatedInPlace ==
  /\ Handled /\ last.status = 200
  /\ last.convo_state = "WAITING_FOR_FACT_ANSWER"
  /\ last.sent[1].msg.text = "Ok, I updated the following question and answer:"
  /\ \E f \in facts : f.question = last.sent[1].msg.q /\ f.answer = last.text

\* no user owns two facts whose questions are equal ignoring case
NoCaseTwins ==
  \A f \in facts, g \in facts :
    (f.user_id = g.user_id /\ Lower(f.question) = Lower(g.question)) => f = g

\* the reply of the step being taken reports a stored fact
UpsertAccepted ==
  OnlyReply.text \in {"Ok, I updated the following question and answer:",
                      "Ok, I created the following question and answer:"}

\* C14: the store takes the fact of a WAITING_FOR_FACT_ANSWER step exactly
\* when no other fact of the same user has the same question ignoring case,
\* whatever other users have stored; so no user ever owns two facts whose
\* questions are equal ignoring case.
C14_QuestionUniquePerUserIgnoringCase ==
  [][ (HandledNow /\ last'.status = 200
       /\ last'.convo_state = "WAITING_FOR_FACT_ANSWER") =>
        LET d == DraftBefore
            clash == \E f \in facts : /\ f.user_id = d.user_id
                                      /\ f.id # d.id
                                      /\ Lower(f.question) = Lower(d.question)
            target == d.id = NoneVal
                      \/ \E f \in facts : f.id = d.id /\ f.user_id = d.user_id
        IN  /\ target => (UpsertAccepted <=> ~clash)
            /\ NoCaseTwins'
    ]_vars

\* C15: get_strongest_intent returns the value of a candidate whose
\* confidence is the highest among those above 0.7, at whatever position of the
\* list it stands, and default_intent when no candidate is above 0.7 (0.7
\* itself is not above).
C15_StrongestIntentIsTheMaximum ==
  strongest_intent # "-" =>
    LET c == nlp_entities.intent
        clear == {i \in 1..Len(c) : c[i].confidence > MIN_CONFIDENCE_THRESHOLD}
    IN  IF clear = {} THEN strongest_intent = "default_intent"
        ELSE \E i \in clear :
               /\ \A j \in clear : c[j].confidence <= c[i].confidence
               /\ strongest_intent = c[i].value

\* C16: in DEFAULT with intent silence_studying and in
\* WAITING_FOR_SILENCE_DURATION, a duration entity with confidence above 0.7
\* gives the silence confirmation and next state DEFAULT whatever the duration
\* is; without one, DEFAULT asks for the duration and goes to
\* WAITING_FOR_SILENCE_DURATION, and WAITING_FOR_SILENCE_DURATION replies that
\* no duration was found and goes to DEFAULT.
C16_SilenceDuration ==
  [][ \A sender_id \in Senders, p \in TurnPayloads :
        ( /\ HandleTurn(sender_id, p.text, p.nlp)
          /\ \/ last'.convo_state = "DEFAULT" /\ last'.intent = "silence_studying"
             \/ last'.convo_state = "WAITING_FOR_SILENCE_DURATION" ) =>
          LET d == p.nlp.duration
              given == d # << >> /\ d[1].confidence > MIN_CONFIDENCE_THRESHOLD
              next == current_user'[1].state
          IN  IF given
              THEN OnlyReply = SilenceReply(d[1].value) /\ next = "DEFAULT"
              ELSE IF last'.convo_state = "DEFAULT"
              THEN /\ OnlyReply = Plain("Ok, how long do you want to silence notifications for?")
                   /\ next = "WAITING_FOR_SILENCE_DURATION"
              ELSE /\ OnlyReply = Plain("Sorry, I couldn't get a duration from that.")
                   /\ next = "DEFAULT"
    ]_vars

\* C17: when the cache is unreachable during an event of an existing user,
\* the event is handled to its end, as on a cache miss: from state DEFAULT,
\* with a reply, and acknowledged.
C17_CacheFailureIsAMiss ==
  (last.kind = "message" /\ last.fault = "cache" /\ ~last.first) =>
    /\ last.status = 200
    /\ last.hit = "miss"
    /\ last.convo_state = "DEFAULT"
    /\ Len(last.sent) = 1

\* the store refuses the upsert of the step being taken: the question is
\* taken by another row, or the row to update is not there
UpsertRejected ==
  LET d == DraftBefore
      taken == \E f \in facts : f.question = d.question /\ f.id # d.id
      gone == d.id # NoneVal
              /\ ~ \E f \in facts : f.id = d.id /\ f.user_id = Snapshot(last'.sender).user_id
  IN  taken \/ gone

C19_UnknownIdNotFoundEveryTime ==
  [][ (HandledNow /\ last'.convo_state \in {"WAITING_FOR_FACT_TO_CHANGE",
                                            "WAITING_FOR_FACT_TO_DELETE"}
       /\ IntParses(last'.text)
       /\ ~ \E f \in FactsOfSender : f.id = IntOf(last'.text)) =>
        /\ OnlyReply = NoSuchFact
        /\ cache'[last'.sender] # << >>
        /\ PersistedState(last'.sender) = "DEFAULT"
        /\ facts' = facts
    ]_vars

\* what a handled event leaves behind and sends; the time shown in a silence
\* confirmation is kept as the duration it is computed from
Outcome(w) ==
  [current_user |-> w.current_user, cache |-> w.cache, facts |-> w.facts,
   sent |-> w.sent, status |-> IF w.exc THEN 500 ELSE 200]

\* C20: from one and the same state, draft, store, message text and entities,
\* two runs of the step give the same next state, the same reply and the same
\* store change.
C20_StepIsDeterministic ==
  \A sender_id \in Senders, p \in Payloads :
    \A r1 \in 0..(Len(RANDOM_PHRASES) - 1), r2 \in 0..(Len(RANDOM_PHRASES) - 1) :
      users[sender_id] # 0 =>
        Outcome(handle_messages(Request("none", r1), sender_id, p.text, p.nlp))
          = Outcome(handle_messages(Request("none", r2), sender_id, p.text, p.nlp))

\* C21: the stored facts change only in a step taken in
\* WAITING_FOR_FACT_ANSWER, or in CONFIRM_FACT_DELETE on a confirmation word;
\* the first-contact turn and the steps of every other state leave the facts
\* of all users as they are.
C21_FactsChangeOnlyInTwoStates ==
  [][ facts' # facts =>
        /\ last'.kind = "message"
        /\ ~last'.first
        /\ \/ last'.convo_state = "WAITING_FOR_FACT_ANSWER"
           \/ /\ last'.convo_state = "CONFIRM_FACT_DELETE"
              /\ Lower(last'.text) \in CONFIRMATIONS
              /\ facts' \subseteq facts
    ]_vars

\* a confirmed deletion took a fact out of the store
C21_FactDeletedOnConfirmation ==
  /\ Handled /\ last.status = 200
  /\ last.convo_state = "CONFIRM_FACT_DELETE"
  /\ last.sent[1].msg = Plain("Fact deleted successfully.")
  /\ facts = {}

\* the conversation state a sender's next turn starts from, given the cache
StateIn(c, sender_id) ==
  IF c[sender_id] = << >> THEN "DEFAULT" ELSE StateOfValue(c[sender_id][1].data.state)

\* the most message events a dialogue in this state still takes to DEFAULT
StepsToDefault(state) ==
  CASE state = "DEFAULT" -> 0
    [] state \in {"WAITING_FOR_FACT_ANSWER", "CONFIRM_FACT_DELETE",
                  "WAITING_FOR_SILENCE_DURATION"} -> 1
    [] state \in {"WAITING_FOR_FACT_QUESTION", "WAITING_FOR_FACT_TO_DELETE"} -> 2
    [] state = "WAITING_FOR_FACT_TO_CHANGE" -> 3

\* C22: a user outside DEFAULT is back in DEFAULT after at most three more
\* message events of theirs, whatever the messages say and whether or not the
\* cache entry survives: every handled event of a user outside DEFAULT
\* shortens the remaining way to DEFAULT, which is never longer than three
\* events, and a step that is not an event of the user leaves their state
\* alone or, taking the cache entry away, puts them in DEFAULT.
C22_BackToDefaultWithinThree ==
  [][ /\ HandledNow =>
           LET s == last'.sender
           IN  StateIn(cache, s) # "DEFAULT" =>
                 StepsToDefault(StateIn(cache', s)) < StepsToDefault(StateIn(cache, s))
      /\ \A s \in Senders :
           (last'.kind # "message" \/ last'.sender # s) =>
             \/ StateIn(cache', s) = StateIn(cache, s)
             \/ StateIn(cache', s) = "DEFAULT"
    ]_vars

\* a change-fact dialogue has come back to DEFAULT with its third message
C22_ChangeDialogueEnded ==
  /\ Handled /\ last.status = 200
  /\ last.convo_state = "WAITING_FOR_FACT_ANSWER"
  /\ last.sent[1].msg.text \in {"Ok, I updated the following question and answer:",
                                "We couldn't update that fact."}
  /\ StateIn(cache, last.sender) = "DEFAULT"

\* the welcome message send_welcome_message posts to a sender
WelcomeTo(sender_id) ==
  Reply("Hello %s, I'm StudyBot. Nice to meet you!", FirstName(sender_id),
        {}, FALSE, NoneStr, NoneStr, NoneVal)

\* the phrases send_greeting_message can post to a sender
GreetingsTo(sender_id) ==
  { Reply(RANDOM_PHRASES[i], FirstName(sender_id), {}, FALSE, NoneStr, NoneStr, NoneVal) :
      i \in 1..Len(RANDOM_PHRASES) }

\* the DEFAULT step took the greeting branch, which reads no intent
GreetingDetected ==
  ~last.first /\ last.convo_state = "DEFAULT" /\ last.intent = "-"

\* C23: handling one message event sends exactly one text message, to the
\* sender: the welcome message on first contact, and otherwise the one reply
\* of the step; a greeting detected in DEFAULT is answered by the greeting
\* phrase and by nothing after it.
C23_ExactlyOneMessagePerEvent ==
  Handled =>
    /\ Len(last.sent) = 1
    /\ last.sent[1].to = last.sender
    /\ last.first => last.sent[1].msg = WelcomeTo(last.sender)
    /\ GreetingDetected => last.sent[1].msg \in GreetingsTo(last.sender)

\* the draft fact of the state persisted for a sender
DraftIn(c, sender_id) == c[sender_id][1].data.tmp_fact

\* C24: whenever the state persisted for a sender is CONFIRM_FACT_DELETE, its
\* draft carries the id of a fact that is in the store and belongs to that
\* sender's User record.
C24_ConfirmDraftIsOwnStoredFact ==
  \A s \in Senders :
    (cache[s] # << >> /\ StateIn(cache, s) = "CONFIRM_FACT_DELETE") =>
      \E f \in facts : f.id = DraftIn(cache, s).id /\ f.user_id = users[s]

====
